---- MODULE Spec2Model ----
(***************************************************************************)
(* The Mozza spectrometer backend (hardware/Mozza.py) on top of the        *)
(* abstract Spectro interface (hardware/spectro.py), as a state machine.   *)
(* Host threads call the backend's methods; every SDK call is one step of  *)
(* the calling thread and may fail with MozzaError.                        *)
(***************************************************************************)
EXTENDS Integers, Sequences, FiniteSets, TLC

VARIABLES
    connected,          \* Spectro._connected
    serial,             \* Spectro._serial (a sequence of characters)
    npixels,            \* Spectro._npixels (0 stands for None)
    lambdas,            \* Spectro._lambdas is set (FALSE stands for None)
    spectrum,           \* Spectro._spectrum
    acquisition,        \* Spectro.acquisition, the requested window
    _acquisition,       \* MozzaSpectro._acquisition, the cached table window
    lockOwner,          \* MozzaSpectro._lock: owning thread, 0 when free
    lockCount,          \* MozzaSpectro._lock: recursion level of the owner
    buffer,             \* MozzaSpectro.buffer: its size in bytes
    correct_amplitude,  \* serial number whose file made the function, 0 for None
    apply_amp_correction,
    amp_correction,     \* multiplier array: [fn, at], fn = 0 for None
    devSerial,          \* SDK handle: connected serial number, 0 when closed
    devTable,           \* SDK handle: programmed wavenumber table
    devAcquiring,       \* SDK handle: between begin_ and end_acquisition
    trigger_source,     \* device.acquisition_params.trigger_source
    trigger_delay_us,   \* device.acquisition_params.trigger_delay_us
    _trigger_delay_us,  \* MozzaSpectro._trigger_delay_us, the cached delay
    th,                 \* per thread: position and locals of the running call
    ret,                \* per thread: how its last call ended
    controller          \* the viewer adapter's controller: "None", or the class of the object

vars == <<connected, serial, npixels, lambdas, spectrum, acquisition, _acquisition,
          lockOwner, lockCount, buffer, correct_amplitude, apply_amp_correction,
          amp_correction, devSerial, devTable, devAcquiring, trigger_source,
          trigger_delay_us, _trigger_delay_us, th, ret, controller>>

spectroVars == <<connected, serial, npixels, lambdas, spectrum, acquisition>>
connVars == <<connected, serial, npixels, lambdas>>
lockVars == <<lockOwner, lockCount>>
ampVars == <<correct_amplitude, apply_amp_correction, amp_correction>>
trigVars == <<trigger_source, trigger_delay_us, _trigger_delay_us>>
devVars == <<devSerial, devTable, devAcquiring, trigVars>>

----------------------------------------------------------------------------
(* Bounds and program constants *)

\* turns of the chunked read loop followed
MaxChunks == 6

\* depth at which Python refuses one more nested call (RecursionError)
RecursionLimit == 3
\* bytes the SDK reports per table point (get_raw_data_size)
BytesPerPoint == 2

max_wn == 12500
min_wn == 2000
resolution_cm == 3

Threads == {1, 2}

----------------------------------------------------------------------------
(* Values *)

\* A Python number as a fraction n/d; d = 0 stands for None.
Num(i) == [n |-> i, d |-> 1]
NoneV == [n |-> 0, d |-> 0]
IsInt(v) == v.d = 1

\* a == b on Python numbers and None
PyEq(a, b) ==
    IF a.d = 0 \/ b.d = 0 THEN a.d = b.d ELSE a.n * b.d = b.n * a.d

\* int(v): the fraction cut towards zero
IntTrunc(v) ==
    IF v.n >= 0 THEN Num(v.n \div v.d) ELSE Num(-((-v.n) \div v.d))

Acquisition(a, b) == [start |-> a, stop |-> b]

\* len(np.arange(max_wn, min_wn, -resolution_cm))
NPixels == (max_wn - min_wn + resolution_cm - 1) \div resolution_cm

\* np.arange(max_wn, min_wn, -resolution_cm)[i]
Wavenumber(i) == max_wn - resolution_cm * i

\* the table np.linspace(1e7/lambdas[s], 1e7/lambdas[e], e-s+1) is the pair <<s, e>>
NoTable == <<-1, -1>>
TableLength(w) == IF w = NoTable THEN 0 ELSE w[2] - w[1] + 1

\* 1e7/wnums[0] and 1e7/wnums[-1]: wavelengths in nm
InvFirst(w) == [n |-> 10000000, d |-> Wavenumber(w[1])]
InvLast(w) == [n |-> 10000000, d |-> Wavenumber(w[2])]

\* device.get_raw_data_size(npoints)
RawDataSize(npoints) == BytesPerPoint * npoints

\* a spectrum value: the table it was taken with and the multiplier applied
NoneSpec == [kind |-> "None", table |-> NoTable, fn |-> 0, at |-> NoTable]
ZeroSpec == [kind |-> "zeros", table |-> NoTable, fn |-> 0, at |-> NoTable]
RawSpec(table) == [kind |-> "spec", table |-> table, fn |-> 0, at |-> NoTable]
NoAmp == [fn |-> 0, at |-> NoTable]

\* spec*self.amp_correction: the exception it raises, "none" when it succeeds
MultiplyExc(spec, amp) ==
    IF spec.kind = "None" \/ amp.fn = 0 THEN "TypeError"
    ELSE IF TableLength(spec.table) # TableLength(amp.at) THEN "ValueError:broadcast"
    ELSE "none"
Multiply(spec, amp) == [spec EXCEPT !.fn = amp.fn, !.at = amp.at]

----------------------------------------------------------------------------
(* Serial strings *)

Digits == {"0", "1", "2", "3", "4", "5", "6", "7", "8", "9"}
DigitVal(c) ==
    CASE c = "0" -> 0 [] c = "1" -> 1 [] c = "2" -> 2 [] c = "3" -> 3 [] c = "4" -> 4
      [] c = "5" -> 5 [] c = "6" -> 6 [] c = "7" -> 7 [] c = "8" -> 8 [] c = "9" -> 9

HashAt(s) == {i \in 1..Len(s) : s[i] = "#"}
Min(S) == CHOOSE x \in S : \A y \in S : x <= y

\* serial.split('#') has an element [1]
HasField1(s) == HashAt(s) # {}
\* serial.split('#')[1]
Field1(s) ==
    LET rest == SubSeq(s, Min(HashAt(s)) + 1, Len(s))
        stop == IF HashAt(rest) = {} THEN Len(rest) ELSE Min(HashAt(rest)) - 1
    IN SubSeq(rest, 1, stop)
\* int(x) accepts x (decimal digits here)
IsIntText(x) == Len(x) > 0 /\ \A i \in 1..Len(x) : x[i] \in Digits
RECURSIVE IntOf(_)
IntOf(x) == IF x = <<>> THEN 0 ELSE 10 * IntOf(SubSeq(x, 1, Len(x) - 1)) + DigitVal(x[Len(x)])

\* the outcome of lines 46-49: the exception raised, "none" when serial_num is set
ParseExc(s) ==
    IF ~HasField1(s) THEN "SpectroError"
    ELSE IF ~IsIntText(Field1(s)) THEN "ValueError"
    ELSE "none"
SerialNum(s) == IntOf(Field1(s))

----------------------------------------------------------------------------
(* Threads *)

\* thread locals: a, b and ser are the arguments of the host's call; writes,
\* ltEnds, realloc, locked, acqEnds, failed (the step that failed, or the kind of
\* correction file found), endFailed, freqs (trigger frequency queries) and reads
\* (SDK raw reads) record what the running call has done so far; in a grab_data
\* call of a viewer adapter, acqs counts the acquisitions made and data_tot holds
\* the spectra added up so far; last, lp and npts are the locals of the chunked
\* read loop, chunks the number of its reads, points the points they asked for
IdleTh == [pc |-> "idle", op |-> "none", a |-> NoneV, b |-> NoneV,
           start |-> NoneV, stop |-> NoneV,
           wnums |-> NoTable, depth |-> 0, exc |-> "none", spec |-> NoneSpec,
           ser |-> <<>>, writes |-> 0, ltEnds |-> 0, realloc |-> FALSE,
           locked |-> FALSE, acqEnds |-> 0, failed |-> "none", endFailed |-> FALSE,
           freqs |-> 0, reads |-> 0, acqs |-> 0, data_tot |-> <<>>,
           last |-> 0, lp |-> 0, npts |-> 0, chunks |-> 0, points |-> 0]
\* status is the exception a viewer adapter caught and reported, emitted the
\* number of results it sent to the host, data the result: the spectra added up
\* and the number the sum was divided by
NoData == [sum |-> <<>>, div |-> 0]
NoRet == [op |-> "none", a |-> NoneV, b |-> NoneV, exc |-> "none", val |-> NoneSpec,
          writes |-> 0, ltEnds |-> 0,
          realloc |-> FALSE, locked |-> FALSE, acqEnds |-> 0, failed |-> "none",
          endFailed |-> FALSE, freqs |-> 0, reads |-> 0, acqs |-> 0,
          status |-> "none", emitted |-> 0, data |-> NoData,
          last |-> 0, chunks |-> 0, points |-> 0]

Init ==
    /\ connected = FALSE
    /\ serial = <<>>
    /\ npixels = 0
    /\ lambdas = FALSE
    /\ spectrum = NoneSpec
    /\ acquisition = Acquisition(NoneV, NoneV)
    /\ _acquisition = Acquisition(Num(0), Num(0))
    /\ lockOwner = 0
    /\ lockCount = 0
    /\ buffer = 0
    /\ correct_amplitude = 0
    /\ apply_amp_correction = FALSE
    /\ amp_correction = NoAmp
    /\ devSerial = 0
    /\ devTable = NoTable
    /\ devAcquiring = FALSE
    /\ trigger_source = "INTERNAL"
    /\ trigger_delay_us = Num(0)
    /\ _trigger_delay_us = Num(0)
    /\ th = [t \in Threads |-> IdleTh]
    /\ ret = [t \in Threads |-> NoRet]
    /\ controller = "None"

Goto(t, p) == th' = [th EXCEPT ![t].pc = p]

\* how a call with locals l ended: with exception exc, or returning val
Ended(l, exc, val) ==
    [op |-> l.op, a |-> l.a, b |-> l.b, exc |-> exc, val |-> val,
     writes |-> l.writes, ltEnds |-> l.ltEnds, realloc |-> l.realloc,
     locked |-> l.locked, acqEnds |-> l.acqEnds, failed |-> l.failed,
     endFailed |-> l.endFailed, freqs |-> l.freqs, reads |-> l.reads,
     acqs |-> l.acqs, status |-> "none", emitted |-> 0, data |-> NoData,
     last |-> l.last, chunks |-> l.chunks, points |-> l.points]

\* the host's call of t ends
Return(t, r) ==
    /\ th' = [th EXCEPT ![t] = IdleTh]
    /\ ret' = [ret EXCEPT ![t] = r]

\* the lifecycle calls of the 0D viewer adapter that call the backend
HostOps == {"ini_detector", "grab_data", "commit_settings", "close"}

\* a backend call made by the 0D viewer adapter ends with exc or val:
\* ini_detector (lines 349-363 of the 0D viewer) catches every exception and
\* reports it; grab_data (375-386) adds the spectrum up and acquires again, or
\* divides and emits, or catches the exception (also the TypeError of 0 + None);
\* commit_settings (402-404) goes on from disconnect_device to connect_device;
\* commit_settings and close (369) have no try block
HostReturn(t, l, exc, val) ==
    CASE l.op = "commit_settings" /\ l.pc = "disconnect_device" /\ exc = "none" ->
             th' = [th EXCEPT ![t] = [l EXCEPT !.pc = "connect_device"]] /\ UNCHANGED ret
      [] l.op = "grab_data" /\ exc = "none" /\ val # NoneSpec ->
             IF l.acqs + 1 < l.a.n
             THEN /\ th' = [th EXCEPT ![t] = [l EXCEPT !.pc = "_acquire_spectrum",
                                                       !.spec = NoneSpec,
                                                       !.acqs = @ + 1,
                                                       !.data_tot = Append(@, val)]]
                  /\ UNCHANGED ret
             ELSE Return(t, [Ended(l, "none", NoneSpec) EXCEPT
                                !.acqs = @ + 1, !.emitted = 1,
                                !.data = [sum |-> Append(l.data_tot, val),
                                          div |-> l.a.n]])
      [] l.op = "grab_data" /\ exc = "none" /\ val = NoneSpec ->
             Return(t, [Ended(l, "none", NoneSpec) EXCEPT
                           !.acqs = @ + 1, !.status = "TypeError"])
      [] l.op = "grab_data" /\ exc # "none" ->
             Return(t, [Ended(l, "none", NoneSpec) EXCEPT
                           !.acqs = @ + 1, !.status = exc])
      [] l.op = "ini_detector" ->
             Return(t, [Ended(l, "none", NoneSpec) EXCEPT !.status = exc])
      [] OTHER -> Return(t, Ended(l, exc, NoneSpec))

\* the running call of t, with locals l, ends: with exception exc, or returning val
Finish(t, l, exc, val) ==
    IF l.op \in HostOps
    THEN HostReturn(t, l, exc, val)
    ELSE Return(t, Ended(l, exc, val))

\* RLock.acquire() can proceed
CanLock(t) == lockOwner \in {0, t}
AcquireLock(t) == lockOwner' = t /\ lockCount' = lockCount + 1
\* k releases by the owner
ReleaseLock(k) ==
    /\ lockCount' = lockCount - k
    /\ lockOwner' = IF lockCount - k = 0 THEN 0 ELSE lockOwner

\* the host calls a method: the thread stands at its first line
Call(t, op, a, b, ser) ==
    /\ th[t].pc = "idle"
    /\ th' = [th EXCEPT ![t] = [IdleTh EXCEPT !.pc = op, !.op = op, !.a = a, !.b = b,
                                 !.start = IF op = "load_table" THEN a ELSE NoneV,
                                 !.stop = IF op = "load_table" THEN b ELSE NoneV,
                                 !.ser = ser]]
    /\ ret' = [ret EXCEPT ![t] = NoRet]
    /\ UNCHANGED <<controller, spectroVars, _acquisition, lockVars, buffer, ampVars, devVars>>

----------------------------------------------------------------------------
(* Spectro.make_acquisition *)

\* a negative index taken as given
ResolveAsGiven(v, n) == v
Resolve(v, n) == IF v < 0 THEN v + n ELSE v
\* the upper limit off by one
StopBadInclusive(stop, n) == stop < 1 \/ stop > n
StopBad(stop, n) == stop < 1 \/ stop >= n
StartBad(start, stop) == start < 0 \/ start >= stop

\* the connected flag not looked at
MakeOutcomeUnguarded(conn, start0, stop0, n) ==
    LET stop == Resolve(stop0, n)
        start == Resolve(start0, n)
    IN IF StopBad(stop, n)
       THEN [kind |-> "ValueError:range", start |-> start0, stop |-> stop]
       ELSE IF StartBad(start, stop)
       THEN [kind |-> "ValueError:range", start |-> start, stop |-> stop]
       ELSE [kind |-> "acquire", start |-> start, stop |-> stop]

\* lines 87-100: what the call does with its arguments
MakeOutcome(conn, start0, stop0, n) ==
    IF ~conn THEN [kind |-> "return", start |-> start0, stop |-> stop0]
    ELSE LET stop == Resolve(stop0, n)
             start == Resolve(start0, n)
         IN IF StopBad(stop, n)
            THEN [kind |-> "ValueError:range", start |-> start0, stop |-> stop]
            ELSE IF StartBad(start, stop)
            THEN [kind |-> "ValueError:range", start |-> start, stop |-> stop]
            ELSE [kind |-> "acquire", start |-> start, stop |-> stop]

make_acquisition(t) ==
    /\ th[t].pc = "make_acquisition"
    /\ LET o == MakeOutcome(connected, th[t].a.n, th[t].b.n, npixels)
       IN CASE o.kind = "return" ->
                 Finish(t, th[t], "none", NoneSpec) /\ UNCHANGED acquisition
            [] o.kind = "ValueError:range" ->
                 Finish(t, th[t], o.kind, NoneSpec) /\ UNCHANGED acquisition
            [] o.kind = "acquire" ->
                 /\ acquisition' = Acquisition(Num(o.start), Num(o.stop))
                 /\ Goto(t, "_acquire_spectrum")
                 /\ UNCHANGED ret
    /\ UNCHANGED <<controller, connVars, spectrum, _acquisition, lockVars, buffer, ampVars, devVars>>

----------------------------------------------------------------------------
(* MozzaSpectro.load_table *)

\* load_table returns to its caller: the host, or line 180 of _acquire_spectrum
LtReturn(t, l) ==
    IF l.op = "load_table"
    THEN Finish(t, l, "none", NoneSpec)
    ELSE th' = [th EXCEPT ![t] = [l EXCEPT !.pc = "lock_acquire", !.depth = 0]]
         /\ UNCHANGED ret

\* lines 108-115
load_table(t) ==
    /\ th[t].pc = "load_table"
    /\ LET l == th[t] IN
       IF l.wnums = NoTable
       THEN /\ _acquisition' = Acquisition(l.start, l.stop)
            /\ IF lambdas /\ IsInt(l.start) /\ IsInt(l.stop)
               THEN /\ th' = [th EXCEPT ![t] = [l EXCEPT !.pc = "lt_lock",
                                 !.depth = l.depth + 1, !.wnums = <<l.start.n, l.stop.n>>]]
                    /\ UNCHANGED ret
               ELSE Finish(t, l, "TypeError", NoneSpec)
       ELSE /\ _acquisition' = Acquisition(InvFirst(l.wnums), InvLast(l.wnums))
            /\ th' = [th EXCEPT ![t] = [l EXCEPT !.pc = "lt_lock", !.depth = l.depth + 1]]
            /\ UNCHANGED ret
    /\ UNCHANGED <<controller, spectroVars, lockVars, buffer, ampVars, devVars>>

\* line 118: with self._lock
lt_lock(t) ==
    /\ th[t].pc = "lt_lock"
    /\ CanLock(t)
    /\ AcquireLock(t)
    /\ Goto(t, "set_wavenumber_array")
    /\ UNCHANGED <<controller, spectroVars, _acquisition, buffer, ampVars, devVars, ret>>

\* line 120: the SDK writes the table, or fails
set_wavenumber_array(t) ==
    /\ th[t].pc = "set_wavenumber_array"
    /\ \/ /\ devTable' = th[t].wnums
          /\ th' = [th EXCEPT ![t].pc = "lt_realloc", ![t].writes = @ + 1]
          /\ ReleaseLock(1)
       \/ /\ th' = [th EXCEPT ![t].pc = "lt_end_acquisition", ![t].writes = @ + 1]
          /\ UNCHANGED <<devTable, lockVars>>
    /\ UNCHANGED <<controller, spectroVars, _acquisition, buffer, ampVars, devSerial, devAcquiring,
                   trigVars, ret>>

\* lines 122-129: end_acquisition, then the nested load_table call
lt_end_acquisition(t) ==
    /\ th[t].pc = "lt_end_acquisition"
    /\ LET l == [th[t] EXCEPT !.ltEnds = @ + 1] IN
       \/ /\ devAcquiring' = FALSE
          /\ IF l.depth >= RecursionLimit
             THEN Finish(t, l, "RecursionError", NoneSpec) /\ ReleaseLock(l.depth)
             ELSE /\ th' = [th EXCEPT ![t] = [l EXCEPT !.pc = "load_table"]]
                  /\ UNCHANGED <<ret, lockVars>>
       \/ /\ Finish(t, l, "SpectroError", NoneSpec)
          /\ ReleaseLock(l.depth)
          /\ UNCHANGED devAcquiring
    /\ UNCHANGED <<controller, spectroVars, _acquisition, buffer, ampVars, devSerial, devTable,
                   trigVars>>

\* the buffer replaced on a first-attempt success only
lt_realloc_FirstAttemptOnly(t) ==
    /\ th[t].pc = "lt_realloc"
    /\ buffer' = IF th[t].depth = 1 THEN RawDataSize(TableLength(devTable)) ELSE buffer
    /\ amp_correction' = IF correct_amplitude # 0
                         THEN [fn |-> correct_amplitude, at |-> th[t].wnums]
                         ELSE amp_correction
    /\ ReleaseLock(th[t].depth - 1)
    /\ LtReturn(t, [th[t] EXCEPT !.realloc = TRUE])
    /\ UNCHANGED <<controller, spectroVars, _acquisition, correct_amplitude, apply_amp_correction,
                   devVars>>

\* lines 131-135, then the return through the frames waiting at line 124
lt_realloc(t) ==
    /\ th[t].pc = "lt_realloc"
    /\ buffer' = RawDataSize(TableLength(devTable))
    /\ amp_correction' = IF correct_amplitude # 0
                         THEN [fn |-> correct_amplitude, at |-> th[t].wnums]
                         ELSE amp_correction
    /\ ReleaseLock(th[t].depth - 1)
    /\ LtReturn(t, [th[t] EXCEPT !.realloc = TRUE])
    /\ UNCHANGED <<controller, spectroVars, _acquisition, correct_amplitude, apply_amp_correction,
                   devVars>>

----------------------------------------------------------------------------
(* MozzaSpectro._acquire_spectrum and read_raw *)

\* a returned None not cached: the previous spectrum kept
AcqFinishKeepsOnNone(t, l, exc, val) ==
    /\ Finish(t, l, exc, val)
    /\ spectrum' = IF l.op = "make_acquisition" /\ exc = "none" /\ val # NoneSpec
                   THEN val ELSE spectrum

\* _acquire_spectrum ends; make_acquisition caches what it returned (line 101)
AcqFinish(t, l, exc, val) ==
    /\ Finish(t, l, exc, val)
    /\ spectrum' = IF l.op = "make_acquisition" /\ exc = "none" THEN val ELSE spectrum

\* lines 177-178: the requested window differs from the cached one
TableStale == \/ ~PyEq(_acquisition.start, acquisition.start)
              \/ ~PyEq(_acquisition.stop, acquisition.stop)

\* lines 176-180
_acquire_spectrum(t) ==
    /\ th[t].pc = "_acquire_spectrum"
    /\ IF TableStale
       THEN th' = [th EXCEPT ![t].pc = "load_table", ![t].start = acquisition.start,
                             ![t].stop = acquisition.stop, ![t].wnums = NoTable]
       ELSE Goto(t, "lock_acquire")
    /\ UNCHANGED <<controller, spectroVars, _acquisition, lockVars, buffer, ampVars, devVars, ret>>

\* line 182 and lines 196-197: self._lock.acquire(False)
lock_acquire(t) ==
    /\ th[t].pc = "lock_acquire"
    /\ IF CanLock(t)
       THEN /\ AcquireLock(t)
            /\ th' = [th EXCEPT ![t].pc = "begin_acquisition", ![t].locked = TRUE]
            /\ UNCHANGED <<ret, spectrum>>
       ELSE /\ AcqFinish(t, th[t], "none", NoneSpec)
            /\ UNCHANGED lockVars
    /\ UNCHANGED <<controller, connVars, acquisition, _acquisition, buffer, ampVars, devVars>>

\* the raw read attempted although begin_acquisition failed
begin_acquisition_ReadsAfterFailure(t) ==
    /\ th[t].pc = "begin_acquisition"
    /\ \/ devAcquiring' = TRUE /\ Goto(t, "read_raw")
       \/ /\ th' = [th EXCEPT ![t].pc = "read_raw", ![t].failed = "begin"]
          /\ UNCHANGED devAcquiring
    /\ UNCHANGED <<controller, spectroVars, _acquisition, lockVars, buffer, ampVars, devSerial,
                   devTable, trigVars, ret>>

\* line 184
begin_acquisition(t) ==
    /\ th[t].pc = "begin_acquisition"
    /\ \/ devAcquiring' = TRUE /\ Goto(t, "read_raw")
       \/ /\ th' = [th EXCEPT ![t].pc = "end_acquisition", ![t].failed = "begin"]
          /\ UNCHANGED devAcquiring
    /\ UNCHANGED <<controller, spectroVars, _acquisition, lockVars, buffer, ampVars, devSerial,
                   devTable, trigVars, ret>>

\* the trigger frequency queried with the internal trigger too
read_raw_QueriesFrequency(t) ==
    /\ th[t].pc = "read_raw"
    /\ trigger_source = "INTERNAL"
    /\ th' = [th EXCEPT ![t].pc = "device_read_raw", ![t].freqs = @ + 1]
    /\ UNCHANGED <<controller, spectroVars, _acquisition, lockVars, buffer, ampVars, devVars, ret>>

\* lines 138, 158-160: with the internal trigger, straight to the blocking read
read_raw(t) ==
    /\ th[t].pc = "read_raw"
    /\ trigger_source = "INTERNAL"
    /\ Goto(t, "device_read_raw")
    /\ UNCHANGED <<controller, spectroVars, _acquisition, lockVars, buffer, ampVars, devVars, ret>>

\* a zero frequency handled like an SDK error: no exception left pending
get_trigger_frequency_TimeoutAsNone(t) ==
    /\ th[t].pc = "read_raw"
    /\ trigger_source = "EXTERNAL"
    /\ \/ th' = [th EXCEPT ![t].pc = "device_read_raw", ![t].freqs = @ + 1]
       \/ th' = [th EXCEPT ![t].pc = "end_acquisition", ![t].failed = "frequency",
                           ![t].freqs = @ + 1]
       \/ th' = [th EXCEPT ![t].pc = "end_acquisition", ![t].failed = "timeout",
                           ![t].freqs = @ + 1]
    /\ UNCHANGED <<controller, spectroVars, _acquisition, lockVars, buffer, ampVars, devVars, ret>>

\* lines 138-141: with the external trigger, the live trigger frequency is read:
\* it is positive, the SDK call fails, or it is zero
get_trigger_frequency(t) ==
    /\ th[t].pc = "read_raw"
    /\ trigger_source = "EXTERNAL"
    /\ \/ th' = [th EXCEPT ![t].pc = "device_read_raw", ![t].freqs = @ + 1]
       \/ th' = [th EXCEPT ![t].pc = "end_acquisition", ![t].failed = "frequency",
                           ![t].freqs = @ + 1]
       \/ th' = [th EXCEPT ![t].pc = "end_acquisition", ![t].failed = "timeout",
                           ![t].exc = "TriggerTimeoutError", ![t].freqs = @ + 1]
    /\ UNCHANGED <<controller, spectroVars, _acquisition, lockVars, buffer, ampVars, devVars, ret>>

\* round(p/q) for q > 0: to the nearest integer, a half to the even one
Round(p, q) ==
    LET fl == p \div q
        r == p - fl * q
    IN IF 2 * r < q THEN fl
       ELSE IF 2 * r > q THEN fl + 1
       ELSE IF fl % 2 = 0 THEN fl ELSE fl + 1

\* line 142-143: buffer.size/trigger_freq/64 > 1, the frequency a fraction f.n/f.d
LongAcquisition(size, f) == size * f.d > 64 * f.n

\* line 147: int(round(trigger_freq/buffer.size*table_length*64 - 1)), in exact
\* arithmetic
Npts(f, size, table_length) ==
    Round(64 * f.n * table_length - f.d * size, f.d * size)

\* lines 138-147: with the external trigger, a frequency so low that the
\* acquisition takes more than a second: the read goes by chunks
chunked_read(t, F) ==
    /\ th[t].pc = "read_raw"
    /\ trigger_source = "EXTERNAL"
    /\ \E f \in F :
          /\ LongAcquisition(buffer, f)
          /\ th' = [th EXCEPT ![t].pc = "chunk_loop", ![t].freqs = @ + 1,
                              ![t].last = 0, ![t].lp = TableLength(devTable),
                              ![t].npts = Npts(f, buffer, TableLength(devTable))]
    /\ UNCHANGED <<controller, spectroVars, _acquisition, lockVars, buffer, ampVars, devVars, ret>>

\* line 149
ChunkSize(npts, lp) == Min({npts, lp})

\* lines 148-154: one turn of the loop, or its end. device.read_raw(N) returns
\* the raw data of N points, or fails; asked for no point or a negative number
\* of points, it returns nothing or fails
chunk_loop(t) ==
    /\ th[t].pc = "chunk_loop"
    /\ IF th[t].last < buffer
       THEN LET N == ChunkSize(th[t].npts, th[t].lp)
                len == IF N >= 1 THEN RawDataSize(N) ELSE 0
            IN /\ th[t].chunks < MaxChunks
               /\ \/ th' = [th EXCEPT ![t].last = @ + len, ![t].lp = @ - th[t].npts,
                                       ![t].chunks = @ + 1, ![t].points = @ + N,
                                       ![t].reads = @ + 1]
                  \/ th' = [th EXCEPT ![t].pc = "end_acquisition", ![t].failed = "read",
                                       ![t].chunks = @ + 1, ![t].points = @ + N,
                                       ![t].reads = @ + 1]
       ELSE Goto(t, "process_spectrum")
    /\ UNCHANGED <<controller, spectroVars, _acquisition, lockVars, buffer, ampVars, devVars, ret>>

\* lines 150, 156, 159: the SDK reads the raw data, or fails
device_read_raw(t) ==
    /\ th[t].pc = "device_read_raw"
    /\ \/ th' = [th EXCEPT ![t].pc = "process_spectrum", ![t].reads = @ + 1]
       \/ th' = [th EXCEPT ![t].pc = "end_acquisition", ![t].failed = "read",
                           ![t].reads = @ + 1]
    /\ UNCHANGED <<controller, spectroVars, _acquisition, lockVars, buffer, ampVars, devVars, ret>>

\* lines 188-189: the else clause, outside the except
process_spectrum(t) ==
    /\ th[t].pc = "process_spectrum"
    /\ \/ th' = [th EXCEPT ![t].pc = "end_acquisition", ![t].spec = RawSpec(devTable)]
       \/ th' = [th EXCEPT ![t].pc = "end_acquisition", ![t].failed = "process",
                           ![t].exc = "MozzaError"]
    /\ UNCHANGED <<controller, spectroVars, _acquisition, lockVars, buffer, ampVars, devVars, ret>>

\* line 199
Corrected(l) ==
    IF apply_amp_correction
    THEN [exc |-> MultiplyExc(l.spec, amp_correction),
          val |-> Multiply(l.spec, amp_correction)]
    ELSE [exc |-> "none", val |-> l.spec]

\* the release left out of the finally clause: skipped when an exception is pending
AcqCleanupAfterFinally(t, l) ==
    IF l.exc # "none"
    THEN AcqFinish(t, l, l.exc, NoneSpec) /\ UNCHANGED lockVars
    ELSE /\ ReleaseLock(1)
         /\ AcqFinish(t, l, Corrected(l).exc,
                      IF Corrected(l).exc = "none" THEN Corrected(l).val ELSE NoneSpec)

\* lines 190-199: the finally clause, then the pending exception or the return
AcqCleanup(t, l) ==
    /\ ReleaseLock(1)
    /\ IF l.exc # "none"
       THEN AcqFinish(t, l, l.exc, NoneSpec)
       ELSE AcqFinish(t, l, Corrected(l).exc,
                      IF Corrected(l).exc = "none" THEN Corrected(l).val ELSE NoneSpec)

end_acquisition(t) ==
    /\ th[t].pc = "end_acquisition"
    /\ \/ /\ devAcquiring' = FALSE
          /\ AcqCleanup(t, [th[t] EXCEPT !.acqEnds = @ + 1])
       \/ /\ UNCHANGED devAcquiring
          /\ AcqCleanup(t, [th[t] EXCEPT !.acqEnds = @ + 1, !.endFailed = TRUE])
    /\ UNCHANGED <<controller, connVars, acquisition, _acquisition, buffer, ampVars, devSerial,
                   devTable, trigVars>>

----------------------------------------------------------------------------
(* MozzaSpectro.connect_device, load_amp_correction, disconnect_device *)

\* lines 46-49
connect_device(t) ==
    /\ th[t].pc = "connect_device"
    /\ IF ParseExc(th[t].ser) = "none"
       THEN Goto(t, "device_connect") /\ UNCHANGED ret
       ELSE Finish(t, th[t], ParseExc(th[t].ser), NoneSpec)
    /\ UNCHANGED <<controller, spectroVars, _acquisition, lockVars, buffer, ampVars, devVars>>

\* lines 51-54: the SDK opens the device (another device has no table of ours)
device_connect(t) ==
    /\ th[t].pc = "device_connect"
    /\ \/ /\ devSerial' = SerialNum(th[t].ser)
          /\ devTable' = IF devSerial = SerialNum(th[t].ser) THEN devTable ELSE NoTable
          /\ devAcquiring' = IF devSerial = SerialNum(th[t].ser) THEN devAcquiring ELSE FALSE
          /\ Goto(t, "get_sensors")
          /\ UNCHANGED ret
       \/ /\ Finish(t, th[t], "SpectroError", NoneSpec)
          /\ UNCHANGED <<devSerial, devTable, devAcquiring>>
    /\ UNCHANGED <<controller, spectroVars, _acquisition, lockVars, buffer, ampVars, trigVars>>

\* lines 57-59
get_sensors(t) ==
    /\ th[t].pc = "get_sensors"
    /\ \/ Goto(t, "set_default_params")
       \/ th' = [th EXCEPT ![t].pc = "reset_all", ![t].failed = "sensors"]
    /\ UNCHANGED <<controller, spectroVars, _acquisition, lockVars, buffer, ampVars, devVars, ret>>

\* a failed reset does not end the call
reset_all_NotFatal(t) ==
    /\ th[t].pc = "reset_all"
    /\ \/ /\ devTable' = NoTable
          /\ devAcquiring' = FALSE
          /\ Goto(t, "set_default_params")
          /\ UNCHANGED ret
       \/ /\ th' = [th EXCEPT ![t].pc = "set_default_params", ![t].failed = "reset"]
          /\ UNCHANGED <<devTable, devAcquiring, ret>>
    /\ UNCHANGED <<controller, spectroVars, _acquisition, lockVars, buffer, ampVars, devSerial,
                   trigVars>>

\* lines 60-63
reset_all(t) ==
    /\ th[t].pc = "reset_all"
    /\ \/ /\ devTable' = NoTable
          /\ devAcquiring' = FALSE
          /\ Goto(t, "set_default_params")
          /\ UNCHANGED ret
       \/ /\ Finish(t, [th[t] EXCEPT !.failed = "reset"], "SpectroError", NoneSpec)
          /\ UNCHANGED <<devTable, devAcquiring>>
    /\ UNCHANGED <<controller, spectroVars, _acquisition, lockVars, buffer, ampVars, devSerial,
                   trigVars>>

\* lines 65-72: the connection state is set, then the SDK applies its defaults
set_default_params(t) ==
    /\ th[t].pc = "set_default_params"
    /\ lambdas' = TRUE
    /\ npixels' = NPixels
    /\ spectrum' = ZeroSpec
    /\ connected' = TRUE
    /\ serial' = th[t].ser
    /\ \/ Goto(t, "load_amp_correction") /\ UNCHANGED ret
       \/ Finish(t, th[t], "MozzaError", NoneSpec)
    /\ UNCHANGED <<controller, acquisition, _acquisition, lockVars, buffer, ampVars, devVars>>

\* what np.loadtxt finds at line 298: no readable file (OSError), a negative
\* amplitude, text that is not two numeric columns (ValueError), one single row
\* (the two names are bound to numbers, len() raises TypeError), or a valid file;
\* the columns np.loadtxt(unpack=True) returns have one length
FileKinds == {"missing", "negative", "format", "onerow", "valid"}

\* the return values False and True
FalseV == [kind |-> "False", table |-> NoTable, fn |-> 0, at |-> NoTable]
TrueV == [kind |-> "True", table |-> NoTable, fn |-> 0, at |-> NoTable]

\* the sign check of line 307 left out
AmpOutcomeNoSignCheck(kind, serial_num, apply) ==
    CASE kind = "missing" -> [fn |-> 0, apply |-> FALSE, exc |-> "none", val |-> FalseV]
      [] kind = "format" -> [fn |-> 0, apply |-> apply, exc |-> "ValueError", val |-> NoneSpec]
      [] kind = "onerow" -> [fn |-> 0, apply |-> apply, exc |-> "TypeError", val |-> NoneSpec]
      [] OTHER -> [fn |-> serial_num, apply |-> apply, exc |-> "none", val |-> TrueV]

\* lines 295-317: correct_amplitude, apply_amp_correction and the outcome of the call
AmpOutcome(kind, serial_num, apply) ==
    CASE kind \in {"missing", "negative"} ->
             [fn |-> 0, apply |-> FALSE, exc |-> "none", val |-> FalseV]
      [] kind = "format" -> [fn |-> 0, apply |-> apply, exc |-> "ValueError", val |-> NoneSpec]
      [] kind = "onerow" -> [fn |-> 0, apply |-> apply, exc |-> "TypeError", val |-> NoneSpec]
      [] kind = "valid" -> [fn |-> serial_num, apply |-> apply, exc |-> "none", val |-> TrueV]

\* lines 294-317, called at line 74 (its return value dropped) or by the host
load_amp_correction(t) ==
    /\ th[t].pc = "load_amp_correction"
    /\ \E kind \in FileKinds :
          LET serial_num == IF th[t].op = "load_amp_correction"
                            THEN th[t].a.n ELSE SerialNum(th[t].ser)
              o == AmpOutcome(kind, serial_num, apply_amp_correction)
          IN /\ correct_amplitude' = o.fn
             /\ apply_amp_correction' = o.apply
             /\ Finish(t, [th[t] EXCEPT !.failed = kind], o.exc,
                       IF th[t].op = "load_amp_correction" THEN o.val ELSE NoneSpec)
    /\ UNCHANGED <<controller, spectroVars, _acquisition, lockVars, buffer, amp_correction, devVars>>

\* lines 76-77
disconnect_device(t) ==
    /\ th[t].pc = "disconnect_device"
    /\ \/ /\ devSerial' = 0
          /\ devAcquiring' = FALSE
          /\ Finish(t, th[t], "none", NoneSpec)
       \/ /\ UNCHANGED <<devSerial, devAcquiring>>
          /\ Finish(t, th[t], "MozzaError", NoneSpec)
    /\ UNCHANGED <<controller, spectroVars, _acquisition, lockVars, buffer, ampVars, devTable,
                   trigVars>>

----------------------------------------------------------------------------
(* MozzaSpectro.measure_offsets *)

\* line 163: with self._lock
measure_offsets(t) ==
    /\ th[t].pc = "measure_offsets"
    /\ CanLock(t)
    /\ AcquireLock(t)
    /\ Goto(t, "device_measure_offsets")
    /\ UNCHANGED <<controller, spectroVars, _acquisition, buffer, ampVars, devVars, ret>>

\* lines 164-168: the SDK measures, the lock is released
device_measure_offsets(t) ==
    /\ th[t].pc = "device_measure_offsets"
    /\ ReleaseLock(1)
    /\ \/ Goto(t, "set_rf_attenuation") /\ UNCHANGED ret
       \/ Finish(t, th[t], "MozzaError", NoneSpec)
    /\ UNCHANGED <<controller, spectroVars, _acquisition, buffer, ampVars, devVars>>

\* lines 170-172: the restore calls, one SDK call each
RestoreCall(t, here, next) ==
    /\ th[t].pc = here
    /\ \/ /\ IF next = "idle" THEN Finish(t, th[t], "none", NoneSpec)
             ELSE Goto(t, next) /\ UNCHANGED ret
       \/ Finish(t, th[t], "MozzaError", NoneSpec)
    /\ UNCHANGED <<controller, spectroVars, _acquisition, lockVars, buffer, ampVars, devVars>>

set_rf_attenuation(t) == RestoreCall(t, "set_rf_attenuation", "set_acquisition_params")
set_acquisition_params(t) == RestoreCall(t, "set_acquisition_params", "set_process_params")
set_process_params(t) == RestoreCall(t, "set_process_params", "idle")

----------------------------------------------------------------------------
(* Attributes the host sets *)

\* MozzaSpectro.apply_amp_correction is a public flag
set_apply_amp_correction(t, flag) ==
    /\ th[t].pc = "idle"
    /\ apply_amp_correction' = flag
    /\ UNCHANGED <<controller, spectroVars, _acquisition, lockVars, buffer, correct_amplitude,
                   amp_correction, devVars, th, ret>>

\* lines 88-95 on the trigger state s = [source, delay, cache]
ExtTriggerKeepsCache(s, flag, update_delay) ==
    LET src == IF flag THEN "EXTERNAL" ELSE "INTERNAL" IN
    IF ~update_delay THEN [s EXCEPT !.source = src]
    ELSE IF src = "INTERNAL"
    THEN [source |-> src, delay |-> Num(0), cache |-> s.cache]
    ELSE [source |-> src, delay |-> IntTrunc(s.cache), cache |-> s.cache]
ExtTrigger(s, flag, update_delay) ==
    LET src == IF flag THEN "EXTERNAL" ELSE "INTERNAL" IN
    IF ~update_delay THEN [s EXCEPT !.source = src]
    ELSE IF src = "INTERNAL"
    THEN [source |-> src, delay |-> Num(0), cache |-> s.delay]
    ELSE [source |-> src, delay |-> IntTrunc(s.cache), cache |-> s.cache]

TrigState == [source |-> trigger_source, delay |-> trigger_delay_us,
              cache |-> _trigger_delay_us]
SetTrigState(s) ==
    /\ trigger_source' = s.source
    /\ trigger_delay_us' = s.delay
    /\ _trigger_delay_us' = s.cache

\* lines 87-95: set_ext_trigger(flag, apply=False, update_delay)
set_ext_trigger(t, flag, update_delay) ==
    /\ th[t].pc = "idle"
    /\ SetTrigState(ExtTrigger(TrigState, flag, update_delay))
    /\ UNCHANGED <<controller, spectroVars, _acquisition, lockVars, buffer, ampVars, devSerial,
                   devTable, devAcquiring, th, ret>>

\* lines 87-97: set_ext_trigger(flag, apply=True, update_delay), up to the lock
set_ext_trigger_apply(t, flag, update_delay) ==
    /\ th[t].pc = "idle"
    /\ SetTrigState(ExtTrigger(TrigState, flag, update_delay))
    /\ th' = [th EXCEPT ![t] = [IdleTh EXCEPT !.pc = "ext_lock",
                                               !.op = "set_ext_trigger"]]
    /\ ret' = [ret EXCEPT ![t] = NoRet]
    /\ UNCHANGED <<controller, spectroVars, _acquisition, lockVars, buffer, ampVars, devSerial,
                   devTable, devAcquiring>>

\* line 98: with self._lock
ext_lock(t) ==
    /\ th[t].pc = "ext_lock"
    /\ CanLock(t)
    /\ AcquireLock(t)
    /\ Goto(t, "apply_acquisition_params")
    /\ UNCHANGED <<controller, spectroVars, _acquisition, buffer, ampVars, devVars, ret>>

\* lines 99-102: device.set_acquisition_params(), its failure raised as SpectroError
apply_acquisition_params(t) ==
    /\ th[t].pc = "apply_acquisition_params"
    /\ ReleaseLock(1)
    /\ \/ Finish(t, th[t], "none", NoneSpec)
       \/ Finish(t, th[t], "SpectroError", NoneSpec)
    /\ UNCHANGED <<controller, spectroVars, _acquisition, buffer, ampVars, devVars>>

\* lines 215-221: the host writes the delay through the acquisition_params property
set_trigger_delay(t, d) ==
    /\ th[t].pc = "idle"
    /\ trigger_delay_us' = Num(d)
    /\ UNCHANGED <<controller, spectroVars, _acquisition, lockVars, buffer, ampVars, devSerial,
                   devTable, devAcquiring, trigger_source, _trigger_delay_us, th, ret>>

----------------------------------------------------------------------------
(* The viewer adapters *)

\* a lifecycle call of the 0D viewer adapter on its controller: the thread stands
\* at the first line of the backend method it calls
HostCall(t, op, pc, a, ser) ==
    /\ th[t].pc = "idle"
    /\ controller = "MozzaSpectro"
    /\ th' = [th EXCEPT ![t] = [IdleTh EXCEPT !.pc = pc, !.op = op, !.a = a, !.ser = ser]]
    /\ ret' = [ret EXCEPT ![t] = NoRet]
    /\ UNCHANGED <<controller, spectroVars, _acquisition, lockVars, buffer, ampVars, devVars>>

\* 0D viewer, lines 347-352: a new backend object (lines 18-32 of the backend),
\* then connect_device(serial) inside the try block
ini_detector(t, ser) ==
    /\ th[t].pc = "idle"
    /\ controller' = "MozzaSpectro"
    /\ connected' = FALSE
    /\ serial' = <<>>
    /\ npixels' = 0
    /\ lambdas' = FALSE
    /\ spectrum' = NoneSpec
    /\ acquisition' = Acquisition(NoneV, NoneV)
    /\ _acquisition' = Acquisition(Num(0), Num(0))
    /\ lockOwner' = 0
    /\ lockCount' = 0
    /\ buffer' = 0
    /\ correct_amplitude' = 0
    /\ apply_amp_correction' = FALSE
    /\ amp_correction' = NoAmp
    /\ trigger_source' = "INTERNAL"
    /\ trigger_delay_us' = Num(0)
    /\ _trigger_delay_us' = Num(0)
    /\ th' = [th EXCEPT ![t] = [IdleTh EXCEPT !.pc = "connect_device",
                                             !.op = "ini_detector", !.ser = ser]]
    /\ ret' = [ret EXCEPT ![t] = NoRet]
    /\ UNCHANGED <<devSerial, devTable, devAcquiring>>

\* 0D viewer, lines 365-369
close(t) == HostCall(t, "close", "disconnect_device", NoneV, <<>>)

\* 0D viewer, lines 371-378: data_tot = 0 and the first _acquire_spectrum()
grab_data(t, Naverage) ==
    HostCall(t, "grab_data", "_acquire_spectrum", Num(Naverage), <<>>)

\* 0D viewer, lines 402-404: the 'serial' setting changed
commit_settings(t, ser) == HostCall(t, "commit_settings", "disconnect_device", NoneV, ser)

\* the table np.arange(1e7/wavenumber_end, 1e7/wavenumber_start, 5) of the 1D
\* viewer (line 66): none of the tables the backend writes
Wnums1D == <<-2, -2>>

\* the 1D viewer's call ends and reports what it did
Return1D(t, l, exc, status, emitted, data) ==
    Return(t, [Ended(l, exc, NoneSpec) EXCEPT !.status = status, !.emitted = emitted,
                                             !.data = data])

\* 1D viewer, lines 54-83, called by ini_detector (line 44) and by commit_settings
\* (line 30): no device found or the connection refused; or the SDK fails after
\* the connection, at the table or after it; or every step succeeds
initialize_controller(t) ==
    /\ th[t].pc = "idle"
    /\ LET l == [IdleTh EXCEPT !.op = "initialize_controller"]
       IN \/ /\ controller' = "None"
             /\ Return1D(t, [l EXCEPT !.failed = "connect"], "none", "MozzaError", 0, NoData)
             /\ UNCHANGED <<devSerial, devTable, devAcquiring, trigger_source>>
          \/ /\ controller' = "None"
             /\ devSerial' = 1
             /\ Return1D(t, [l EXCEPT !.failed = "table"], "none", "MozzaError", 0, NoData)
             /\ UNCHANGED <<devTable, devAcquiring, trigger_source>>
          \/ /\ controller' = "None"
             /\ devSerial' = 1
             /\ devTable' = Wnums1D
             /\ trigger_source' = "INTERNAL"
             /\ Return1D(t, [l EXCEPT !.failed = "params"], "none", "MozzaError", 0, NoData)
             /\ UNCHANGED devAcquiring
          \/ /\ controller' = "MozzaUSB"
             /\ devSerial' = 1
             /\ devTable' = Wnums1D
             /\ trigger_source' = "INTERNAL"
             /\ Return1D(t, l, "none", "none", 0, NoData)
             /\ UNCHANGED devAcquiring
    /\ UNCHANGED <<spectroVars, _acquisition, lockVars, buffer, ampVars, trigger_delay_us,
                   _trigger_delay_us>>

\* 1D viewer, lines 104-107 and 133: without a controller an empty result is emitted
grab_data_1D(t, Naverage) ==
    /\ th[t].pc = "idle"
    /\ LET l == [IdleTh EXCEPT !.op = "grab_data_1D", !.a = Num(Naverage)]
       IN IF controller = "None"
          THEN Return1D(t, l, "none", "none", 1, NoData)
          ELSE /\ th' = [th EXCEPT ![t] = [l EXCEPT !.pc = "begin_acquisition_1D"]]
               /\ ret' = [ret EXCEPT ![t] = NoRet]
    /\ UNCHANGED <<controller, spectroVars, _acquisition, lockVars, buffer, ampVars, devVars>>

\* 1D viewer, lines 128-133: the exception is printed, the empty result emitted
Except1D(t, l, step) ==
    Return1D(t, [l EXCEPT !.failed = step], "none", "MozzaError", 1, NoData)

\* 1D viewer, line 110
begin_acquisition_1D(t) ==
    /\ th[t].pc = "begin_acquisition_1D"
    /\ \/ /\ devAcquiring' = TRUE
          /\ th' = [th EXCEPT ![t].pc = "read_raw_1D", ![t].acqs = @ + 1]
          /\ UNCHANGED ret
       \/ /\ Except1D(t, [th[t] EXCEPT !.acqs = @ + 1], "begin")
          /\ UNCHANGED devAcquiring
    /\ UNCHANGED <<controller, spectroVars, _acquisition, lockVars, buffer, ampVars, devSerial,
                   devTable, trigVars>>

\* 1D viewer, line 112
read_raw_1D(t) ==
    /\ th[t].pc = "read_raw_1D"
    /\ \/ th' = [th EXCEPT ![t].pc = "separate_sig_ref_1D", ![t].reads = @ + 1]
          /\ UNCHANGED ret
       \/ Except1D(t, [th[t] EXCEPT !.reads = @ + 1], "read")
    /\ UNCHANGED <<controller, spectroVars, _acquisition, lockVars, buffer, ampVars, devVars>>

\* 1D viewer, line 114
separate_sig_ref_1D(t) ==
    /\ th[t].pc = "separate_sig_ref_1D"
    /\ \/ Goto(t, "end_acquisition_1D") /\ UNCHANGED ret
       \/ Except1D(t, th[t], "separate")
    /\ UNCHANGED <<controller, spectroVars, _acquisition, lockVars, buffer, ampVars, devVars>>

\* 1D viewer, line 116
end_acquisition_1D(t) ==
    /\ th[t].pc = "end_acquisition_1D"
    /\ \/ /\ devAcquiring' = FALSE
          /\ th' = [th EXCEPT ![t].pc = "process_spectrum_1D", ![t].acqEnds = @ + 1]
          /\ UNCHANGED ret
       \/ /\ Except1D(t, [th[t] EXCEPT !.acqEnds = @ + 1, !.endFailed = TRUE], "end")
          /\ UNCHANGED devAcquiring
    /\ UNCHANGED <<controller, spectroVars, _acquisition, lockVars, buffer, ampVars, devSerial,
                   devTable, trigVars>>

\* 1D viewer, lines 118-133: the one spectrum is emitted as it is
process_spectrum_1D(t) ==
    /\ th[t].pc = "process_spectrum_1D"
    /\ \/ Return1D(t, th[t], "none", "none", 1,
                   [sum |-> <<RawSpec(devTable)>>, div |-> 1])
       \/ Except1D(t, th[t], "process")
    /\ UNCHANGED <<controller, spectroVars, _acquisition, lockVars, buffer, ampVars, devVars>>

\* 1D viewer, lines 93-94: nothing to close without a controller
close_1D(t) ==
    /\ th[t].pc = "idle"
    /\ LET l == [IdleTh EXCEPT !.op = "close_1D"]
       IN IF controller = "None"
          THEN Return1D(t, l, "none", "none", 0, NoData)
          ELSE /\ th' = [th EXCEPT ![t] = [l EXCEPT !.pc = "close_end_acquisition_1D"]]
               /\ ret' = [ret EXCEPT ![t] = NoRet]
    /\ UNCHANGED <<controller, spectroVars, _acquisition, lockVars, buffer, ampVars, devVars>>

\* 1D viewer, lines 95-101: end_acquisition inside the try block
close_end_acquisition_1D(t) ==
    /\ th[t].pc = "close_end_acquisition_1D"
    /\ \/ /\ devAcquiring' = FALSE
          /\ th' = [th EXCEPT ![t].pc = "disconnect_1D", ![t].acqEnds = @ + 1]
       \/ /\ UNCHANGED devAcquiring
          /\ th' = [th EXCEPT ![t].pc = "disconnect_1D", ![t].acqEnds = @ + 1,
                              ![t].endFailed = TRUE]
    /\ UNCHANGED <<controller, spectroVars, _acquisition, lockVars, buffer, ampVars, devSerial,
                   devTable, trigVars, ret>>

\* 1D viewer, line 102: disconnect() after the try block
disconnect_1D(t) ==
    /\ th[t].pc = "disconnect_1D"
    /\ \/ /\ devSerial' = 0
          /\ devAcquiring' = FALSE
          /\ Return1D(t, th[t], "none",
                      IF th[t].endFailed THEN "MozzaError" ELSE "none", 0, NoData)
       \/ /\ UNCHANGED <<devSerial, devAcquiring>>
          /\ Return1D(t, [th[t] EXCEPT !.failed = "disconnect"], "MozzaError",
                      IF th[t].endFailed THEN "MozzaError" ELSE "none", 0, NoData)
    /\ UNCHANGED <<controller, spectroVars, _acquisition, lockVars, buffer, ampVars, devTable,
                   trigVars>>

\* 1D viewer, lines 140-148: end_acquisition inside a try block
stop_1D(t) ==
    /\ th[t].pc = "idle"
    /\ LET l == [IdleTh EXCEPT !.op = "stop_1D"]
       IN IF controller = "None"
          THEN Return1D(t, l, "none", "none", 0, NoData) /\ UNCHANGED devAcquiring
          ELSE \/ /\ devAcquiring' = FALSE
                  /\ Return1D(t, [l EXCEPT !.acqEnds = 1], "none", "none", 0, NoData)
               \/ /\ UNCHANGED devAcquiring
                  /\ Return1D(t, [l EXCEPT !.acqEnds = 1, !.endFailed = TRUE], "none",
                              "MozzaError", 0, NoData)
    /\ UNCHANGED <<controller, spectroVars, _acquisition, lockVars, buffer, ampVars, devSerial,
                   devTable, trigVars>>

----------------------------------------------------------------------------
(* Specifications *)

\* steps of make_acquisition, _acquire_spectrum and load_table
StepAcquire(t) ==
    \/ make_acquisition(t)
    \/ _acquire_spectrum(t)
    \/ load_table(t)
    \/ lt_lock(t)
    \/ set_wavenumber_array(t)
    \/ lt_end_acquisition(t)
    \/ lt_realloc(t)
    \/ lock_acquire(t)
    \/ begin_acquisition(t)
    \/ read_raw(t)
    \/ device_read_raw(t)
    \/ process_spectrum(t)
    \/ end_acquisition(t)

\* steps of connect_device
StepConnect(t) ==
    \/ connect_device(t)
    \/ device_connect(t)
    \/ get_sensors(t)
    \/ reset_all(t)
    \/ set_default_params(t)
    \/ load_amp_correction(t)

\* steps of measure_offsets
StepOffsets(t) ==
    \/ measure_offsets(t)
    \/ device_measure_offsets(t)
    \/ set_rf_attenuation(t)
    \/ set_acquisition_params(t)
    \/ set_process_params(t)

\* arguments the host passes
Mozza1 == <<"M", "o", "z", "z", "a", "#", "1">>
Prefixes == {<<"M", "o", "z", "z", "a">>, <<"F", "o", "o">>}
SuffixChars == {"#", "1", "a"}
MaxSuffix == 3
Suffixes == UNION {[1..k -> SuffixChars] : k \in 0..MaxSuffix}
Serials == {p \o x : p \in Prefixes, x \in Suffixes}
Indices == {-NPixels - 1, -2, -1, 0, NPixels}
SerialNums == {1, 2}
MaxDelay == 4
Delays == 0..MaxDelay
Mozza2 == <<"M", "o", "z", "z", "a", "#", "2">>
MaxAverage == 2
MaxFreq == 8
\* trigger frequencies in Hz, 1/64 Hz apart
Frequencies == {[n |-> k, d |-> 64] : k \in 1..MaxFreq}
MaxPoints == 4
Averages == 1..MaxAverage

CallMake(t, I) == \E a, b \in I : Call(t, "make_acquisition", Num(a), Num(b), <<>>)
CallAcquire(t) == Call(t, "_acquire_spectrum", NoneV, NoneV, <<>>)
CallLoadTable(t, W) == \E w \in W : Call(t, "load_table", Num(w[1]), Num(w[2]), <<>>)
CallConnect(t, S) == \E x \in S : Call(t, "connect_device", NoneV, NoneV, x)
CallDisconnect(t) == Call(t, "disconnect_device", NoneV, NoneV, <<>>)
CallOffsets(t) == Call(t, "measure_offsets", NoneV, NoneV, <<>>)
SetApply(t) == \E f \in BOOLEAN : set_apply_amp_correction(t, f)
CallLoadAmp(t, N) == \E n \in N : Call(t, "load_amp_correction", Num(n), NoneV, <<>>)
SetTrigger(t) == \E f \in BOOLEAN : set_ext_trigger(t, f, FALSE)

\* one host thread: connect, acquire, load tables, switch the flags
Next ==
    \/ CallConnect(1, {Mozza1})
    \/ CallDisconnect(1)
    \/ disconnect_device(1)
    \/ CallMake(1, {0, -1})
    \/ CallAcquire(1)
    \/ CallLoadTable(1, {<<0, 1>>})
    \/ SetApply(1)
    \/ SetTrigger(1)
    \/ StepConnect(1)
    \/ StepAcquire(1)
    \/ get_trigger_frequency(1)

Spec == Init /\ [][Next]_vars

\* one host thread: connect and acquire over every kind of index
NextMake ==
    \/ CallConnect(1, {Mozza1})
    \/ CallMake(1, Indices)
    \/ StepConnect(1)
    \/ StepAcquire(1)

SpecMake == Init /\ [][NextMake]_vars

\* one host thread: connect with every kind of serial string
NextSerial ==
    \/ CallConnect(1, Serials)
    \/ CallDisconnect(1)
    \/ disconnect_device(1)
    \/ StepConnect(1)

SpecSerial == Init /\ [][NextSerial]_vars

\* the backend as connect_device("Mozza#1") leaves it when the device answers and
\* its correction file is missing
InitConc ==
    /\ connected = TRUE
    /\ serial = Mozza1
    /\ npixels = NPixels
    /\ lambdas = TRUE
    /\ spectrum = ZeroSpec
    /\ acquisition = Acquisition(NoneV, NoneV)
    /\ _acquisition = Acquisition(Num(0), Num(0))
    /\ lockOwner = 0
    /\ lockCount = 0
    /\ buffer = 0
    /\ correct_amplitude = 0
    /\ apply_amp_correction = FALSE
    /\ amp_correction = NoAmp
    /\ devSerial = 1
    /\ devTable = NoTable
    /\ devAcquiring = FALSE
    /\ trigger_source = "INTERNAL"
    /\ trigger_delay_us = Num(0)
    /\ _trigger_delay_us = Num(0)
    /\ th = [t \in Threads |-> IdleTh]
    /\ ret = [t \in Threads |-> [NoRet EXCEPT !.op = "connect_device"]]
    /\ controller = "None"

\* two host threads on a connected backend
NextConc ==
    \E t \in Threads :
        \/ CallMake(t, {0, -1})
        \/ CallLoadTable(t, {<<0, 1>>})
        \/ CallOffsets(t)
        \/ StepAcquire(t)
        \/ StepOffsets(t)

SpecConc == InitConc /\ [][NextConc]_vars

\* one host thread: connect, load correction files, acquire, switch the flag
NextAmp ==
    \/ CallConnect(1, {Mozza1})
    \/ CallLoadAmp(1, SerialNums)
    \/ CallMake(1, {0, -1})
    \/ SetApply(1)
    \/ StepConnect(1)
    \/ StepAcquire(1)

SpecAmp == Init /\ [][NextAmp]_vars

\* one host thread: the trigger source and its delay
NextTrigger ==
    \/ \E f, u \in BOOLEAN : set_ext_trigger(1, f, u)
    \/ \E f, u \in BOOLEAN : set_ext_trigger_apply(1, f, u)
    \/ ext_lock(1)
    \/ apply_acquisition_params(1)
    \/ \E d \in Delays : set_trigger_delay(1, d)

SpecTrigger == Init /\ [][NextTrigger]_vars

\* the backend connected, the external trigger chosen and a table of L points
\* loaded by make_acquisition(0, L - 1)
InitChunk ==
    /\ connected = TRUE
    /\ serial = Mozza1
    /\ npixels = NPixels
    /\ lambdas = TRUE
    /\ \E L \in 2..MaxPoints :
          /\ spectrum = RawSpec(<<0, L - 1>>)
          /\ acquisition = Acquisition(Num(0), Num(L - 1))
          /\ _acquisition = Acquisition(Num(0), Num(L - 1))
          /\ buffer = RawDataSize(L)
          /\ devTable = <<0, L - 1>>
    /\ lockOwner = 0
    /\ lockCount = 0
    /\ correct_amplitude = 0
    /\ apply_amp_correction = FALSE
    /\ amp_correction = NoAmp
    /\ devSerial = 1
    /\ devAcquiring = FALSE
    /\ trigger_source = "EXTERNAL"
    /\ trigger_delay_us = Num(0)
    /\ _trigger_delay_us = Num(0)
    /\ th = [t \in Threads |-> IdleTh]
    /\ ret = [t \in Threads |-> [NoRet EXCEPT !.op = "make_acquisition"]]
    /\ controller = "None"

\* one host thread acquires with a slow external trigger
NextChunk ==
    \/ CallAcquire(1)
    \/ _acquire_spectrum(1)
    \/ lock_acquire(1)
    \/ begin_acquisition(1)
    \/ chunked_read(1, Frequencies)
    \/ chunk_loop(1)
    \/ process_spectrum(1)
    \/ end_acquisition(1)

SpecChunk == InitChunk /\ [][NextChunk]_vars

\* one host thread: connect to one of two devices when none is open, acquire,
\* disconnect
NextReconnect ==
    \/ devSerial = 0 /\ CallConnect(1, {Mozza1, Mozza2})
    \/ CallDisconnect(1)
    \/ disconnect_device(1)
    \/ CallMake(1, {0, -1})
    \/ StepConnect(1)
    \/ StepAcquire(1)

SpecReconnect == Init /\ [][NextReconnect]_vars

\* steps of _acquire_spectrum as the 0D viewer calls it: with the window never
\* set, load_table ends at its first lines
StepGrab(t) ==
    \/ _acquire_spectrum(t)
    \/ load_table(t)
    \/ lock_acquire(t)
    \/ begin_acquisition(t)
    \/ read_raw(t)
    \/ device_read_raw(t)
    \/ process_spectrum(t)
    \/ end_acquisition(t)

\* the host drives the 0D viewer adapter
NextViewer ==
    \/ \E s \in {Mozza1, Mozza2} : ini_detector(1, s)
    \/ \E n \in Averages : grab_data(1, n)
    \/ \E s \in {Mozza1, Mozza2} : commit_settings(1, s)
    \/ close(1)
    \/ disconnect_device(1)
    \/ StepConnect(1)
    \/ StepGrab(1)

SpecViewer == Init /\ [][NextViewer]_vars

\* the host drives the 1D viewer adapter
NextViewer1D ==
    \/ initialize_controller(1)
    \/ \E n \in Averages : grab_data_1D(1, n)
    \/ begin_acquisition_1D(1)
    \/ read_raw_1D(1)
    \/ separate_sig_ref_1D(1)
    \/ end_acquisition_1D(1)
    \/ process_spectrum_1D(1)
    \/ stop_1D(1)
    \/ close_1D(1)
    \/ close_end_acquisition_1D(1)
    \/ disconnect_1D(1)

SpecViewer1D == Init /\ [][NextViewer1D]_vars

----------------------------------------------------------------------------
(* Claims *)

\* thread t takes a step
Stepped(t) == th'[t] # th[t]

\* the host's calls that run _acquire_spectrum
AcquireOps == {"make_acquisition", "_acquire_spectrum"}

\* C1: while another thread holds the lock, a call of _acquire_spectrum (directly or
\* through make_acquisition) never waits for the lock, whatever window it asks for,
\* and ends returning None without raising.
C1_BusyCallReturnsNone ==
    /\ [](\A t \in Threads :
            th[t].op \in AcquireOps => ~(th[t].pc = "lt_lock" /\ ~CanLock(t)))
    /\ [][\A t \in Threads :
            (th[t].op \in AcquireOps /\ th[t].pc # "make_acquisition" /\ ~CanLock(t)
               /\ th'[t].pc = "idle" /\ Stepped(t))
            => ret'[t].exc = "none" /\ ret'[t].val = NoneSpec]_vars

\* write failures of a finished load_table: all its writes but the one that succeeded
FailedWrites(r) == r.writes - (IF r.realloc THEN 1 ELSE 0)

\* C2: in one top-level load_table call the table write is submitted at most twice
\* and end_acquisition is called at most once, whatever the SDK does.
C2_OneRetry ==
    \A t \in Threads :
        /\ th[t].writes <= 2 /\ th[t].ltEnds <= 1
        /\ ret[t].writes <= 2 /\ ret[t].ltEnds <= 1

\* C3: a load_table call whose table write failed on the first attempt and on the
\* resubmission raises SpectroError and has not replaced the raw buffer.
C3_SecondFailureIsFatal ==
    \A t \in Threads :
        (th[t].pc = "idle" /\ ret[t].op = "load_table" /\ FailedWrites(ret[t]) >= 2)
        => ret[t].exc = "SpectroError" /\ ~ret[t].realloc

\* C4: a call of _acquire_spectrum that took the lock attempts end_acquisition exactly
\* once before it ends, whichever step failed in between; a failure of
\* end_acquisition raises nothing (MozzaError comes from process_spectrum alone,
\* TriggerTimeoutError from the frequency check alone); and the thread holds the
\* lock no more once the call has ended.
C4_CleanupAlwaysRuns ==
    \A t \in Threads :
        /\ th[t].pc = "idle" => lockOwner # t
        /\ th[t].locked => th[t].acqEnds = 0 /\ lockOwner = t
        /\ ret[t].locked
           => /\ ret[t].acqEnds = 1
              /\ (ret[t].exc = "MozzaError") <=> (ret[t].failed = "process")
              /\ (ret[t].exc = "TriggerTimeoutError") <=> (ret[t].failed = "timeout")

C4_Witness ==
    /\ th[1].pc = "idle"
    /\ ret[1].locked
    /\ ret[1].endFailed
    /\ ret[1].failed = "process"
    /\ ret[1].exc = "MozzaError"
    /\ ret[1].acqEnds = 1
    /\ lockOwner = 0

\* C5: when begin_acquisition or the raw read fails with an SDK error, the call of
\* _acquire_spectrum returns None and raises nothing, whatever apply_amp_correction.
C5_SdkErrorYieldsNone ==
    \A t \in Threads :
        (ret[t].locked /\ ret[t].failed \in {"begin", "read"})
        => ret[t].exc = "none" /\ ret[t].val = NoneSpec

\* positions from which the next step is an SDK call or replaces the raw buffer
SdkSteps == {"set_wavenumber_array", "lt_end_acquisition", "lt_realloc",
             "begin_acquisition", "device_read_raw", "process_spectrum",
             "end_acquisition", "device_measure_offsets", "set_rf_attenuation",
             "set_acquisition_params", "set_process_params"}
\* between begin_acquisition and end_acquisition, or inside the table write
InCritical(u) ==
    \/ th[u].pc \in {"read_raw", "device_read_raw", "process_spectrum"}
    \/ th[u].pc = "end_acquisition" /\ th[u].failed # "begin"
    \/ th[u].pc \in {"set_wavenumber_array", "lt_end_acquisition"}

\* C6: while a thread is between begin_acquisition and end_acquisition, or inside a
\* table write, no other thread issues an SDK call or replaces the raw buffer.
C6_LockSerializesSdk ==
    [][\A t \in Threads :
          (th[t].pc \in SdkSteps /\ Stepped(t))
          => \A u \in Threads \ {t} : ~InCritical(u)]_vars

\* "Mozza#<int>": the prefix, then one or more decimal digits
MozzaPrefix == <<"M", "o", "z", "z", "a", "#">>
WellFormedSerial(s) ==
    /\ Len(s) > Len(MozzaPrefix)
    /\ SubSeq(s, 1, Len(MozzaPrefix)) = MozzaPrefix
    /\ \A i \in Len(MozzaPrefix) + 1..Len(s) : s[i] \in Digits

\* C7: for a serial string not of the form "Mozza#<int>", connect_device raises
\* SpectroError at once, before any SDK call, and leaves connected, serial, npixels,
\* lambdas and spectrum as they were.
C7_BadSerialRejected ==
    [][\A t \in Threads :
          (th[t].pc = "connect_device" /\ ~WellFormedSerial(th[t].ser) /\ Stepped(t))
          => /\ th'[t].pc = "idle"
             /\ ret'[t].exc = "SpectroError"
             /\ UNCHANGED <<connVars, spectrum>>]_vars

\* C8: make_acquisition on a backend that is not connected is a no-op for every
\* (start, stop): it raises nothing, does not go on to _acquire_spectrum, and
\* leaves the stored window and the cached spectrum as they were.
C8_NoOpWhenNotConnected ==
    [][\A t \in Threads :
          (th[t].pc = "make_acquisition" /\ ~connected /\ Stepped(t))
          => /\ th'[t].pc = "idle"
             /\ ret'[t].exc = "none"
             /\ acquisition' = acquisition
             /\ spectrum' = spectrum]_vars

C8_Witness ==
    /\ ~connected
    /\ th[1].pc = "idle"
    /\ ret[1].op = "make_acquisition"
    /\ ret[1].exc = "none"
    /\ ret[1].a = Num(0)
    /\ ret[1].b = Num(NPixels)

\* the window the claims C9 and C10 speak of: a negative value means npixels + value
ResolvedIndex(v) == IF v < 0 THEN npixels + v ELSE v
ValidWindow(s, e) == 0 <= s /\ s < e /\ e < npixels

\* C9: on a connected backend a negative start or stop resolves to npixels + value,
\* and every resolved window with 0 <= start < stop < npixels is stored as the
\* requested window exactly, before the acquisition goes on.
C9_StoresResolvedWindow ==
    [][\A t \in Threads :
          (th[t].pc = "make_acquisition" /\ connected /\ Stepped(t))
          => LET s == ResolvedIndex(th[t].a.n)
                 e == ResolvedIndex(th[t].b.n)
             IN ValidWindow(s, e)
                => /\ acquisition' = Acquisition(Num(s), Num(e))
                   /\ th'[t].pc = "_acquire_spectrum"]_vars

C9_Witness ==
    /\ connected
    /\ th[1].pc = "_acquire_spectrum"
    /\ th[1].a = Num(-2)
    /\ th[1].b = Num(-1)
    /\ acquisition = Acquisition(Num(NPixels - 2), Num(NPixels - 1))

\* C10: on a connected backend make_acquisition raises the range error exactly when
\* the resolved window is not 0 <= start < stop < npixels, and then it does not go
\* on to _acquire_spectrum and leaves the stored window and the cached spectrum.
C10_RangeErrorIffInvalid ==
    /\ [][\A t \in Threads :
            (th[t].pc = "make_acquisition" /\ connected /\ Stepped(t))
            => LET s == ResolvedIndex(th[t].a.n)
                   e == ResolvedIndex(th[t].b.n)
               IN /\ (ret'[t].exc = "ValueError:range") <=> ~ValidWindow(s, e)
                  /\ ~ValidWindow(s, e)
                     => /\ th'[t].pc = "idle"
                        /\ acquisition' = acquisition
                        /\ spectrum' = spectrum]_vars
    /\ [](\A t \in Threads :
            ret[t].exc = "ValueError:range"
            => /\ ret[t].op = "make_acquisition"
               /\ ~ValidWindow(ResolvedIndex(ret[t].a.n), ResolvedIndex(ret[t].b.n)))

C10_Witness ==
    /\ connected
    /\ ret[1].exc = "ValueError:range"
    /\ ret[1].a = Num(0)
    /\ ret[1].b = Num(NPixels)
    /\ acquisition = Acquisition(Num(0), Num(NPixels - 1))
    /\ spectrum.kind = "spec"

\* C11: on a connected backend with a valid window, make_acquisition stores the
\* resolved window as it goes on to _acquire_spectrum, enters _acquire_spectrum
\* once, and when that call returns the cached spectrum is the value it returned:
\* None when the request was dropped or the SDK failed.
C11_CachesWhatAcquireReturned ==
    [][\A t \in Threads :
          (th[t].op = "make_acquisition" /\ Stepped(t))
          => /\ (th[t].pc = "make_acquisition" /\ th'[t].pc # "idle")
                => /\ th'[t].pc = "_acquire_spectrum"
                   /\ acquisition' = Acquisition(Num(ResolvedIndex(th[t].a.n)),
                                                 Num(ResolvedIndex(th[t].b.n)))
             /\ th[t].pc # "make_acquisition" => th'[t].pc # "_acquire_spectrum"
             /\ (th[t].pc # "make_acquisition" /\ th'[t].pc = "idle"
                   /\ ret'[t].exc = "none")
                => /\ spectrum' = ret'[t].val
                   /\ (~th[t].locked \/ th[t].failed \in {"begin", "frequency", "read"})
                      => spectrum' = NoneSpec]_vars

C11_Witness ==
    /\ th[2].pc = "idle"
    /\ ret[2].op = "make_acquisition"
    /\ ret[2].exc = "none"
    /\ ~ret[2].locked
    /\ ret[2].val = NoneSpec
    /\ spectrum = NoneSpec
    /\ lockOwner = 1

\* C12: whenever _acquire_spectrum returns a spectrum while apply_amp_correction is
\* true and a correction function exists, the result is the processed spectrum
\* multiplied by that function evaluated at the table programmed in the device.
C12_CorrectionMatchesTable ==
    [][\A t \in Threads :
          (th[t].pc = "end_acquisition" /\ Stepped(t) /\ apply_amp_correction
             /\ correct_amplitude # 0
             /\ ret'[t].exc = "none" /\ ret'[t].val.kind = "spec")
          => /\ ret'[t].val.table = devTable
             /\ ret'[t].val.fn = correct_amplitude
             /\ ret'[t].val.at = devTable]_vars

\* C13: a load_amp_correction call that finds the file missing or an amplitude
\* negative returns False and leaves apply_amp_correction false and
\* correct_amplitude None, whatever they were; correct_amplitude is a function
\* only after a call that found a valid file.
C13_InvalidFileDisablesCorrection ==
    [][\A t \in Threads :
          (th[t].pc = "load_amp_correction" /\ Stepped(t))
          => /\ ret'[t].failed \in {"missing", "negative"}
                => /\ ret'[t].exc = "none"
                   /\ th[t].op = "load_amp_correction" => ret'[t].val = FalseV
                   /\ ~apply_amp_correction'
                   /\ correct_amplitude' = 0
             /\ correct_amplitude' # 0
                => ret'[t].failed = "valid" /\ ret'[t].exc = "none"]_vars

C13_Witness ==
    /\ th[1].pc = "idle"
    /\ ret[1].op = "load_amp_correction"
    /\ ret[1].failed = "negative"
    /\ ret[1].val = FalseV
    /\ correct_amplitude = 0
    /\ ~apply_amp_correction
    /\ amp_correction.fn # 0

\* C14: whatever the correction file holds, connect_device with a serial that
\* parses and an SDK that answers ends without raising, connected, and with the
\* correction disabled unless the file is valid.
C14_ConnectSurvivesBadFile ==
    [][\A t \in Threads :
          (th[t].op = "connect_device" /\ th[t].pc = "load_amp_correction" /\ Stepped(t))
          => /\ ret'[t].exc = "none"
             /\ connected'
             /\ ret'[t].failed # "valid"
                => ~apply_amp_correction' /\ correct_amplitude' = 0]_vars

\* C15: a load_table call returns without raising only after its table was written,
\* the raw buffer was given the size the SDK reports for the length of that table,
\* and, when a correction function exists, the multiplier array was recomputed at
\* the wavenumbers of that table; also when the write succeeded on a retry.
C15_ReallocMatchesNewTable ==
    /\ [][\A t \in Threads :
            (th[t].pc = "lt_realloc" /\ Stepped(t))
            => /\ devTable = th[t].wnums
               /\ buffer' = RawDataSize(TableLength(th[t].wnums))
               /\ correct_amplitude # 0
                  => amp_correction' = [fn |-> correct_amplitude, at |-> th[t].wnums]]_vars
    /\ [](\A t \in Threads :
            (th[t].pc = "idle" /\ ret[t].op = "load_table" /\ ret[t].exc = "none")
            => ret[t].realloc)

C15_Witness ==
    /\ th[1].pc = "idle"
    /\ ret[1].op = "load_table"
    /\ ret[1].exc = "none"
    /\ ret[1].writes = 2
    /\ ret[1].realloc
    /\ buffer = RawDataSize(2)
    /\ devTable = <<0, 1>>
    /\ amp_correction = [fn |-> 1, at |-> <<0, 1>>]

\* C16: with update_delay, the switch from the external to the internal trigger
\* caches the device delay and sets the device delay to 0, and the switch back
\* sets the device delay to the cached value: after the round trip the delay is
\* what it was before.
C16_DelayRoundTrip ==
    /\ [](trigger_source = "EXTERNAL"
          => LET s == ExtTrigger(TrigState, FALSE, TRUE)
                 r == ExtTrigger(s, TRUE, TRUE)
             IN /\ s.source = "INTERNAL"
                /\ PyEq(s.cache, trigger_delay_us)
                /\ PyEq(s.delay, Num(0))
                /\ r.source = "EXTERNAL"
                /\ PyEq(r.delay, s.cache)
                /\ PyEq(r.delay, trigger_delay_us))
    /\ [][(trigger_source = "EXTERNAL" /\ trigger_source' = "INTERNAL"
             /\ <<trigger_delay_us, _trigger_delay_us>>'
                  # <<trigger_delay_us, _trigger_delay_us>>)
          => /\ PyEq(_trigger_delay_us', trigger_delay_us)
             /\ PyEq(trigger_delay_us', Num(0))]_vars
    /\ [][(trigger_source = "INTERNAL" /\ trigger_source' = "EXTERNAL"
             /\ trigger_delay_us' # trigger_delay_us)
          => /\ PyEq(trigger_delay_us', _trigger_delay_us)
             /\ UNCHANGED _trigger_delay_us]_vars

C16_Witness ==
    /\ trigger_source = "EXTERNAL"
    /\ trigger_delay_us = Num(MaxDelay)
    /\ _trigger_delay_us = Num(MaxDelay)

\* C17: read_raw with the external trigger queries the trigger frequency first and,
\* when it is zero, raises TriggerTimeoutError with no SDK raw read issued; with the
\* internal trigger it issues exactly one SDK raw read and no frequency query.
C17_ReadRawByTriggerSource ==
    /\ [][\A t \in Threads :
            (th[t].pc = "read_raw" /\ Stepped(t))
            => IF trigger_source = "EXTERNAL"
               THEN /\ th'[t].freqs = 1
                    /\ th'[t].reads = 0
                    /\ th'[t].failed = "timeout"
                       => /\ th'[t].pc = "end_acquisition"
                          /\ th'[t].exc = "TriggerTimeoutError"
               ELSE /\ th'[t].freqs = 0
                    /\ th'[t].pc = "device_read_raw"]_vars
    /\ [](\A t \in Threads :
            /\ th[t].failed = "timeout" => th[t].reads = 0
            /\ ret[t].failed = "timeout"
               => ret[t].reads = 0 /\ ret[t].freqs = 1 /\ ret[t].exc = "TriggerTimeoutError"
            /\ (ret[t].locked /\ ret[t].freqs = 0 /\ ret[t].failed # "begin")
               => ret[t].reads = 1)

C17_Witness ==
    /\ th[1].pc = "idle"
    /\ ret[1].failed = "timeout"
    /\ ret[1].exc = "TriggerTimeoutError"
    /\ ret[1].freqs = 1
    /\ ret[1].reads = 0

\* C18: after disconnect_device the connected flag is false, and make_acquisition
\* goes no further than its connected check while no device is open.
C18_DisconnectTearsDown ==
    \A t \in Threads :
        /\ (th[t].pc = "idle" /\ ret[t].op = "disconnect_device" /\ ret[t].exc = "none")
           => ~connected
        /\ (devSerial = 0 /\ th[t].op = "make_acquisition")
           => th[t].pc = "make_acquisition"

\* C19: whenever _acquire_spectrum starts, the backend is connected and the
\* requested window is a pair of indices with 0 <= start < stop < npixels.
C19_AcquireOnlyThroughMake ==
    \A t \in Threads :
        th[t].pc = "_acquire_spectrum"
        => /\ connected
           /\ IsInt(acquisition.start) /\ IsInt(acquisition.stop)
           /\ ValidWindow(acquisition.start.n, acquisition.stop.n)

\* the backend operations the claim C20 names
BackendOps == {"connect_device", "disconnect_device", "load_table", "measure_offsets",
               "set_ext_trigger"}

\* C20: no backend operation ends with the raw SDK error: an SDK failure reaches
\* the caller as SpectroError.
C20_SdkErrorsBecomeSpectroError ==
    \A t \in Threads : ret[t].op \in BackendOps => ret[t].exc # "MozzaError"

\* C21: in connect_device, once the SDK connection is open, a sensor read that
\* succeeds is followed by the connection state without any reset; one that fails
\* is followed by reset_all, once, before any later step; a reset that fails ends
\* the call with SpectroError, and connected, npixels, lambdas and serial are as
\* they were.
C21_ProbeThenResetOnce ==
    [][\A t \in Threads :
          Stepped(t)
          => /\ th[t].pc = "get_sensors"
                => \/ /\ th'[t].pc = "set_default_params"
                      /\ th'[t].failed = "none"
                      /\ UNCHANGED <<devTable, devAcquiring>>
                   \/ th'[t].pc = "reset_all" /\ th'[t].failed = "sensors"
             /\ th'[t].pc = "reset_all" => th[t].pc = "get_sensors"
             /\ th[t].pc = "reset_all"
                => \/ /\ th'[t].pc = "set_default_params"
                      /\ th'[t].failed = "sensors"
                      /\ devTable' = NoTable
                   \/ /\ th'[t].pc = "idle"
                      /\ ret'[t].exc = "SpectroError"
                      /\ ret'[t].failed = "reset"
                      /\ UNCHANGED connVars
             /\ th'[t].pc = "set_default_params"
                => th[t].pc \in {"get_sensors", "reset_all"}]_vars

C21_Witness ==
    /\ th[1].pc = "idle"
    /\ ret[1].op = "connect_device"
    /\ ret[1].failed = "reset"
    /\ ret[1].exc = "SpectroError"
    /\ connected
    /\ devSerial # 0
    /\ devSerial # SerialNum(serial)

\* C22: no lifecycle call of the 0D viewer adapter (ini_detector, grab_data,
\* commit_settings, close) ends with an exception reaching the host: each
\* exception of the backend is caught and reported as a status message.
C22_HostCallsNeverRaise ==
    \A t \in Threads : ret[t].op \in HostOps => ret[t].exc = "none"

\* positions inside load_table
LoadTablePcs == {"load_table", "lt_lock", "set_wavenumber_array", "lt_end_acquisition",
                 "lt_realloc"}

\* C23: the steps of one _acquire_spectrum call come in the order table check,
\* table reprogram when the window changed, non-blocking lock attempt,
\* begin_acquisition, raw read, process_spectrum, end_acquisition: begin_acquisition
\* is reached once and only with the lock just obtained, the raw read only after
\* begin_acquisition succeeded, process_spectrum only after the raw read
\* succeeded, end_acquisition after them and then the call ends; a call that does
\* not obtain the lock ends at once without any of these four steps.
C23_AcquisitionStepOrder ==
    [][\A t \in Threads :
          (th[t].op \in AcquireOps /\ Stepped(t))
          => /\ th'[t].pc = "_acquire_spectrum" => th[t].pc \in {"idle", "make_acquisition"}
             /\ th[t].pc = "_acquire_spectrum" => th'[t].pc \in {"load_table", "lock_acquire"}
             /\ th'[t].pc = "load_table" /\ th[t].depth = 0 => th[t].pc = "_acquire_spectrum"
             /\ th'[t].pc = "lock_acquire"
                => th[t].pc \in LoadTablePcs \cup {"_acquire_spectrum"}
             /\ th'[t].pc = "begin_acquisition"
                => /\ th[t].pc = "lock_acquire"
                   /\ ~th[t].locked
                   /\ th'[t].locked
                   /\ lockOwner' = t
             /\ th'[t].pc = "read_raw"
                => th[t].pc = "begin_acquisition" /\ th'[t].failed = "none" /\ devAcquiring'
             /\ th'[t].pc = "device_read_raw" => th[t].pc = "read_raw"
             /\ th'[t].pc = "process_spectrum"
                => /\ th[t].pc = "device_read_raw"
                   /\ th'[t].failed = "none"
                   /\ th'[t].reads = th[t].reads + 1
             /\ th'[t].pc = "end_acquisition"
                => /\ th[t].pc \in {"begin_acquisition", "read_raw", "device_read_raw",
                                    "process_spectrum"}
                   /\ th[t].locked
                   /\ th[t].acqEnds = 0
             /\ th[t].pc = "end_acquisition"
                => th'[t].pc = "idle" /\ ret'[t].acqEnds = 1 /\ lockOwner' # t
             /\ (th[t].pc = "lock_acquire" /\ ~CanLock(t))
                => /\ th'[t].pc = "idle"
                   /\ ~ret'[t].locked
                   /\ ret'[t].reads = 0
                   /\ ret'[t].acqEnds = 0
                   /\ UNCHANGED <<devAcquiring, lockVars>>]_vars

C23_Witness ==
    /\ th[1].pc = "idle"
    /\ ret[1].op = "make_acquisition"
    /\ ret[1].realloc
    /\ ~ret[1].locked
    /\ ret[1].acqEnds = 0
    /\ th[2].op = "make_acquisition"
    /\ th[2].pc = "end_acquisition"
    /\ th[2].spec # NoneSpec

\* C24: in the chunked read loop every read asks for at least one and at most
\* npts points; the loop ends, and when it has ended the points asked for add up
\* to the table length and the bytes copied to the size of the buffer.
C24_ChunksCoverTable ==
    \A t \in Threads :
        th[t].pc = "chunk_loop"
        => IF th[t].last < buffer
           THEN /\ ChunkSize(th[t].npts, th[t].lp) >= 1
                /\ ChunkSize(th[t].npts, th[t].lp) <= th[t].npts
                /\ th[t].chunks < TableLength(devTable)
           ELSE /\ th[t].points = TableLength(devTable)
                /\ th[t].last = buffer

\* C25: a grab_data(Naverage) call of either viewer adapter that emits data has
\* made Naverage acquisitions and emits, once, their sum divided by Naverage.
C25_GrabAveragesNaverage ==
    \A t \in Threads :
        (ret[t].op \in {"grab_data", "grab_data_1D"} /\ ret[t].data # NoData)
        => /\ ret[t].acqs = ret[t].a.n
           /\ ret[t].emitted = 1
           /\ Len(ret[t].data.sum) = ret[t].a.n
           /\ ret[t].data.div = ret[t].a.n

\* the cached window is the pixel window of the table on the device
CacheMatchesDevice ==
    /\ devTable # NoTable
    /\ PyEq(_acquisition.start, Num(devTable[1]))
    /\ PyEq(_acquisition.stop, Num(devTable[2]))

\* C26: once a call that submitted a table write has ended, whatever the SDK
\* did, the cached window _acquisition is the pixel window of the table last
\* written to the device, so that the next _acquire_spectrum reprograms the table
\* exactly when the requested window is not the one on the device.
C26_CacheIsTableOnDevice ==
    \A t \in Threads :
        (th[t].pc = "idle" /\ ret[t].op \in AcquireOps \cup {"load_table"}
           /\ ret[t].writes > 0)
        => CacheMatchesDevice

\* C27: when connect_device has ended without raising and the device it opened
\* holds no table, the make_acquisition call that follows, for any valid window,
\* finds the cached window different from the requested one, so that it writes
\* the table before begin_acquisition.
C27_ReconnectReloadsTable ==
    [][\A t \in Threads :
          (th[t].pc = "idle" /\ ret[t].op = "connect_device" /\ ret[t].exc = "none"
             /\ devTable = NoTable /\ th'[t].pc = "make_acquisition")
          => LET o == MakeOutcome(connected, th'[t].a.n, th'[t].b.n, npixels)
             IN o.kind = "acquire"
                => \/ ~PyEq(_acquisition.start, Num(o.start))
                   \/ ~PyEq(_acquisition.stop, Num(o.stop))]_vars

\* C28: a connect_device call that ends by raising (at the SDK connection, the
\* reset, set_default_params or the loading of the correction file) has left the
\* connected flag and serial as they were: the step that raises changes neither.
C28_ConnectedOnlyOnSuccess ==
    [][\A t \in Threads :
          (th[t].op = "connect_device" /\ Stepped(t) /\ th'[t].pc = "idle"
             /\ ret'[t].exc # "none")
          => UNCHANGED <<connected, serial>>]_vars

\* set_ext_trigger(False, update_delay=True) called n times in a row from state s
RECURSIVE InternalTimes(_, _)
InternalTimes(s, n) ==
    IF n = 0 THEN s ELSE InternalTimes(ExtTrigger(s, FALSE, TRUE), n - 1)

\* C29: from every state, set_ext_trigger(False, update_delay=True) called once
\* or several times in a row and then set_ext_trigger(True, update_delay=True)
\* leaves the device trigger delay at the value it had before the first call.
C29_InternalSwitchIdempotent ==
    \A n \in 1..3 :
        PyEq(ExtTrigger(InternalTimes(TrigState, n), TRUE, TRUE).delay, trigger_delay_us)

\* C30: when the trigger frequency reads as zero during make_acquisition, the
\* call goes on to end_acquisition and then ends raising TriggerTimeoutError
\* with the lock released; no step of the call has changed the cached spectrum.
C30_TimeoutReachesCaller ==
    [][\A t \in Threads :
          (th[t].op = "make_acquisition" /\ Stepped(t))
          => /\ (th[t].pc = "read_raw" /\ th'[t].failed = "timeout")
                => th'[t].pc = "end_acquisition" /\ th'[t].acqEnds = 0
             /\ th[t].failed = "timeout"
                => /\ th[t].pc = "end_acquisition"
                   /\ th'[t].pc = "idle"
                   /\ ret'[t].exc = "TriggerTimeoutError"
                   /\ ret'[t].val = NoneSpec
                   /\ ret'[t].acqEnds = 1
                   /\ lockOwner' = 0
                   /\ lockCount' = 0
                   /\ UNCHANGED spectrum
             /\ (th'[t].pc # "idle" /\ th'[t].failed = "timeout") => UNCHANGED spectrum
             /\ (th'[t].pc # "idle" /\ th[t].pc # "idle") => UNCHANGED spectrum]_vars

C30_Witness ==
    /\ th[1].pc = "idle"
    /\ ret[1].op = "make_acquisition"
    /\ ret[1].failed = "timeout"
    /\ ret[1].exc = "TriggerTimeoutError"
    /\ ret[1].endFailed
    /\ spectrum.kind = "spec"
    /\ lockOwner = 0

\* C31: a grab_data call of the 1D viewer adapter whose begin_acquisition
\* succeeded has called end_acquisition before it returns, whichever later step
\* failed.
C31_GrabEndsAcquisition ==
    \A t \in Threads :
        (th[t].pc = "idle" /\ ret[t].op = "grab_data_1D" /\ ret[t].acqs = 1
           /\ ret[t].failed # "begin")
        => ret[t].acqEnds = 1

====
